---------------------------- MODULE Spec2Model ----------------------------
(***************************************************************************)
(* Model of src_mcu/src/main.cpp: the firmware of the Diffusive Bubble     *)
(* Growth pressure logger (setup(), loop(), mA2bar()).                     *)
(*                                                                         *)
(* Numbers keep the widths of the source.  `float` is IEEE-754 binary32    *)
(* (round to nearest, ties to even), `uint32_t` is kept in two 16-bit      *)
(* limbs, each within the range of a 32-bit signed integer.                *)
(***************************************************************************)
EXTENDS Integers, Sequences, FiniteSets, TLC

(***************************************************************************)
(* binary32 arithmetic.  A float is [cls, sgn, man, exp]; a finite float   *)
(* has the value (-1)^sgn * man * 2^exp with man < 2^24 and exp >= -149;   *)
(* it is normal when man >= 2^23, subnormal (exp = -149) or zero otherwise.*)
(***************************************************************************)
F32_MANT_DIG == 24
F32_MIN_EXP == -149
F32_MAX_EXP == 104

F32NaN == [cls |-> "nan", sgn |-> 0, man |-> 0, exp |-> 0]
F32Inf(s) == [cls |-> "inf", sgn |-> s, man |-> 0, exp |-> 0]
F32Zero(s) == [cls |-> "fin", sgn |-> s, man |-> 0, exp |-> 0]
F32Fin(s, m, e) == [cls |-> "fin", sgn |-> s, man |-> m, exp |-> e]

isnan(x) == x.cls = "nan"
isinf(x) == x.cls = "inf"
F32IsZero(x) == x.cls = "fin" /\ x.man = 0

Max(a, b) == IF a >= b THEN a ELSE b
Min(a, b) == IF a <= b THEN a ELSE b

\* Number of significant bits of n >= 0.
RECURSIVE BitLen(_)
BitLen(n) == IF n = 0 THEN 0 ELSE 1 + BitLen(n \div 2)

\* Round the exact value (-1)^s * (m + t) * 2^e, m < 2^31, where stk says that
\* a positive fraction t < 1 was cut off below m, to the nearest binary32,
\* ties to even; overflow gives infinity, underflow a subnormal or zero.
F32Round(s, m, e, stk) ==
    IF m = 0 THEN F32Zero(s)
    ELSE LET sh == Max(BitLen(m) - F32_MANT_DIG, F32_MIN_EXP - e)
             q  == IF sh > 30 THEN 0
                   ELSE IF sh >= 0 THEN m \div (2 ^ sh)
                   ELSE m * (2 ^ (0 - sh))
             r  == IF sh > 30 THEN m
                   ELSE IF sh >= 0 THEN m % (2 ^ sh)
                   ELSE 0
             up == IF sh <= 0 \/ sh > 31 THEN FALSE
                   ELSE \/ r > 2 ^ (sh - 1)
                        \/ r = 2 ^ (sh - 1) /\ (stk \/ q % 2 = 1)
             q1 == IF up THEN q + 1 ELSE q
             q2 == IF q1 = 2 ^ F32_MANT_DIG THEN q1 \div 2 ELSE q1
             e2 == IF q1 = 2 ^ F32_MANT_DIG THEN e + sh + 1 ELSE e + sh
         IN  IF q2 = 0 THEN F32Zero(s)
             ELSE IF e2 > F32_MAX_EXP THEN F32Inf(s)
             ELSE F32Fin(s, q2, e2)

\* A finite nonzero float with its significand shifted up to 24 bits.
RECURSIVE F32Norm(_)
F32Norm(x) ==
    IF x.man >= 2 ^ (F32_MANT_DIG - 1) THEN x
    ELSE F32Norm([x EXCEPT !.man = 2 * @, !.exp = @ - 1])

F32Neg(x) == IF isnan(x) THEN x ELSE [x EXCEPT !.sgn = 1 - @]

\* Magnitude sum or difference of two finite nonzero floats, |a| >= |b|:
\* a is shifted up by 5 guard bits and one sticky bit, b is aligned to it.
F32AddMag(a, b, s, sub) ==
    LET na == F32Norm(a)
        nb == F32Norm(b)
        d  == na.exp - nb.exp
        A  == na.man * 64
        B  == IF d <= 6 THEN nb.man * (2 ^ (6 - d))
              ELSE IF d - 6 > 24 THEN 1
              ELSE LET c == 2 ^ (d - 6)
                       t == nb.man \div c
                   IN  IF nb.man % c = 0 THEN t
                       ELSE (t - (t % 2)) + 1
        R  == IF sub THEN A - B ELSE A + B
    IN  IF R = 0 THEN F32Zero(0) ELSE F32Round(s, R, na.exp - 6, FALSE)

F32MagGeq(a, b) ==
    LET na == F32Norm(a)
        nb == F32Norm(b)
    IN  na.exp > nb.exp \/ (na.exp = nb.exp /\ na.man >= nb.man)

\* a + b
F32Add(a, b) ==
    IF isnan(a) \/ isnan(b) THEN F32NaN
    ELSE IF isinf(a) /\ isinf(b) THEN (IF a.sgn = b.sgn THEN a ELSE F32NaN)
    ELSE IF isinf(a) THEN a
    ELSE IF isinf(b) THEN b
    ELSE IF F32IsZero(a) /\ F32IsZero(b)
         THEN F32Zero(IF a.sgn = 1 /\ b.sgn = 1 THEN 1 ELSE 0)
    ELSE IF F32IsZero(a) THEN b
    ELSE IF F32IsZero(b) THEN a
    ELSE IF F32MagGeq(a, b) THEN F32AddMag(a, b, a.sgn, a.sgn # b.sgn)
    ELSE F32AddMag(b, a, b.sgn, a.sgn # b.sgn)

\* a - b
F32Sub(a, b) == F32Add(a, F32Neg(b))

\* a * b: the 48-bit product of the significands from 12-bit halves.
F32Mul(a, b) ==
    LET s == IF a.sgn = b.sgn THEN 0 ELSE 1
    IN  IF isnan(a) \/ isnan(b) THEN F32NaN
        ELSE IF isinf(a) \/ isinf(b)
             THEN (IF F32IsZero(a) \/ F32IsZero(b) THEN F32NaN ELSE F32Inf(s))
        ELSE IF F32IsZero(a) \/ F32IsZero(b) THEN F32Zero(s)
        ELSE LET na == F32Norm(a)
                 nb == F32Norm(b)
                 a1 == na.man \div 4096
                 a0 == na.man % 4096
                 b1 == nb.man \div 4096
                 b0 == nb.man % 4096
                 md == a1 * b0 + a0 * b1
                 L  == (md % 4096) * 4096 + a0 * b0
                 H  == a1 * b1 + (md \div 4096) + (L \div 16777216)
                 Lr == L % 16777216
             IN  F32Round(s, H * 64 + (Lr \div 262144),
                          na.exp + nb.exp + 18, Lr % 262144 # 0)

\* Long division: n more quotient bits of r / d, r < d; <<quotient, remainder>>.
RECURSIVE F32DivBits(_, _, _, _)
F32DivBits(q, r, d, n) ==
    IF n = 0 THEN <<q, r>>
    ELSE IF 2 * r >= d THEN F32DivBits(2 * q + 1, 2 * r - d, d, n - 1)
    ELSE F32DivBits(2 * q, 2 * r, d, n - 1)

\* a / b
F32Div(a, b) ==
    LET s == IF a.sgn = b.sgn THEN 0 ELSE 1
    IN  IF isnan(a) \/ isnan(b) THEN F32NaN
        ELSE IF isinf(a) THEN (IF isinf(b) THEN F32NaN ELSE F32Inf(s))
        ELSE IF isinf(b) THEN F32Zero(s)
        ELSE IF F32IsZero(b) THEN (IF F32IsZero(a) THEN F32NaN ELSE F32Inf(s))
        ELSE IF F32IsZero(a) THEN F32Zero(s)
        ELSE LET na == F32Norm(a)
                 nb == F32Norm(b)
                 q0 == na.man \div nb.man
                 qr == F32DivBits(q0, na.man % nb.man, nb.man, 26)
             IN  F32Round(s, qr[1], na.exp - nb.exp - 26, qr[2] # 0)

\* The float nearest to the integer n, |n| < 2^31.
F32FromInt(n) == F32Round(IF n < 0 THEN 1 ELSE 0, IF n < 0 THEN 0 - n ELSE n, 0, FALSE)

\* The float written as the decimal literal n/d (n, d exactly representable):
\* the correctly rounded quotient is the float nearest to the literal.
F32Lit(n, d) == F32Div(F32FromInt(n), F32FromInt(d))

\* a < b and a <= b as the comparison operators of C give them (false on NaN).
F32Lt(a, b) ==
    IF isnan(a) \/ isnan(b) THEN FALSE
    ELSE IF F32IsZero(a) /\ F32IsZero(b) THEN FALSE
    ELSE LET d == F32Sub(a, b)
         IN  IF isnan(d) THEN FALSE
             ELSE IF isinf(d) THEN d.sgn = 1
             ELSE d.man # 0 /\ d.sgn = 1

(***************************************************************************)
(* uint32_t in two 16-bit limbs: the value is hi * 2^16 + lo.              *)
(***************************************************************************)
U32(h, l) == [hi |-> h, lo |-> l]
U32Of(n) == U32(n \div 65536, n % 65536)

\* (a + b) mod 2^32
U32Add(a, b) ==
    LET l == a.lo + b.lo
    IN  U32((a.hi + b.hi + (l \div 65536)) % 65536, l % 65536)

\* (a - b) mod 2^32: the unsigned subtraction of line 153.
U32Sub(a, b) ==
    LET l == a.lo - b.lo
        w == IF l < 0 THEN 1 ELSE 0
    IN  U32((a.hi - b.hi - w + 65536) % 65536, (l + 65536) % 65536)

\* a >= b and a < b, unsigned
U32Geq(a, b) == a.hi > b.hi \/ (a.hi = b.hi /\ a.lo >= b.lo)
U32Lt(a, b) == ~U32Geq(a, b)

(***************************************************************************)
(* Serial output.  Print::println ends a line with carriage return and     *)
(* newline; Print::print(double, digits) is printFloat: "nan", "inf" and   *)
(* "ovf" for the values it does not format, else the magnitude plus        *)
(* 0.5 / 10^digits cut off after `digits` decimals.  The float argument    *)
(* converts to double exactly; the sum and the digit extraction are taken  *)
(* exactly here, which is what binary64 yields for every float that is     *)
(* not exactly halfway between two printed values (digits <= 3).           *)
(***************************************************************************)
DigitChar == <<"0", "1", "2", "3", "4", "5", "6", "7", "8", "9">>
CRLF == "\r\n"
TAB == "\t"

\* Print::printNumber(n, 10), 0 <= n < 2^31
RECURSIVE printNumber(_)
printNumber(n) ==
    IF n < 10 THEN DigitChar[n + 1]
    ELSE printNumber(n \div 10) \o DigitChar[(n % 10) + 1]

\* The `digits` decimals of n / 10^digits, one print(toPrint) each.
RECURSIVE printDecimals(_, _)
printDecimals(n, digits) ==
    IF digits = 0 THEN ""
    ELSE printDecimals(n \div 10, digits - 1) \o DigitChar[(n % 10) + 1]

\* floor(r * c / 2^k + 1/2) for 0 <= r < min(2^k, 2^24), k >= 1, c <= 1000:
\* the decimals of the fraction r / 2^k after the rounding term is added.
RoundedFraction(r, k, c) ==
    IF r = 0 \/ k >= 36 THEN 0
    ELSE IF k <= 20 THEN (2 * r * c + 2 ^ k) \div (2 ^ (k + 1))
    ELSE LET TH == (r \div 4096) * c + (((r % 4096) * c) \div 4096)
         IN  (TH \div (2 ^ (k - 12)))
               + (IF TH % (2 ^ (k - 12)) >= 2 ^ (k - 13) THEN 1 ELSE 0)

\* The characters Print::printFloat emits for the float x.
printFloat(x, digits) ==
    IF isnan(x) THEN "nan"
    ELSE IF isinf(x) THEN "inf"
    ELSE IF x.man # 0 /\ x.exp > 8 THEN "ovf"
    ELSE LET neg   == IF x.sgn = 1 /\ x.man # 0 THEN "-" ELSE ""
             c     == 10 ^ digits
             k     == 0 - x.exp
             whole == IF k <= 0 THEN 0
                      ELSE IF k > 30 THEN 0 ELSE x.man \div (2 ^ k)
             r     == IF k <= 0 THEN 0
                      ELSE IF k > 30 THEN x.man ELSE x.man % (2 ^ k)
             n     == IF k <= 0 THEN 0 ELSE RoundedFraction(r, k, c)
             carry == IF n = c THEN 1 ELSE 0
             dec   == (IF digits > 0 THEN "." ELSE "")
                        \o printDecimals(n % c, digits)
         IN  IF k > 0 THEN neg \o printNumber(whole + carry) \o dec
             ELSE IF x.exp < 8 THEN neg \o printNumber(x.man * (2 ^ x.exp)) \o dec
             ELSE neg \o printNumber(x.man \div 390625)
                      \o printDecimals((x.man % 390625) * 256, 8) \o dec

(***************************************************************************)
(* Program constants                                                       *)
(***************************************************************************)
NEO_DIM == 2
NEO_BRIGHT == 6
FLASH_LENGTH == 100

\* Adafruit_NeoPixel::Color packs r, g, b into one word.
Color(r, g, b) == r * 65536 + g * 256 + b
LED_OFF == Color(0, 0, 0)
BLUE == Color(0, 0, NEO_BRIGHT)
GREEN_DIM == Color(0, NEO_DIM, 0)
GREEN_BRIGHT == Color(0, NEO_BRIGHT, 0)

Pressure_Calibration(z, s, f) == [zero_mA |-> z, span_mA |-> s, full_range_bar |-> f]
PRESSURE_CALIB ==
    Pressure_Calibration(F32Lit(401, 100), F32Lit(1599, 100), F32Lit(10, 1))

\* Mutant: the result limited to the sensor's range.
mA2bar_clamped(mA, calib) ==
    LET bar == F32Mul(F32Div(F32Sub(mA, calib.zero_mA), calib.span_mA),
                      calib.full_range_bar)
    IN  IF F32Lt(bar, F32Zero(0)) THEN F32Zero(0)
        ELSE IF F32Lt(calib.full_range_bar, bar) THEN calib.full_range_bar
        ELSE bar

\* Mutant: a missing reading taken as 0 mA.
mA2bar_default(mA, calib) ==
    F32Mul(F32Div(F32Sub(IF isnan(mA) THEN F32Zero(0) ELSE mA, calib.zero_mA),
                  calib.span_mA), calib.full_range_bar)

mA2bar(mA, calib) ==
    F32Mul(F32Div(F32Sub(mA, calib.zero_mA), calib.span_mA), calib.full_range_bar)

Readings(b, m, p) == [pres_bitval |-> b, pres_mA |-> m, pres_bar |-> p]

(***************************************************************************)
(* Commands are C strings: sequences of characters, the terminating NUL    *)
(* being the end of the sequence.                                          *)
(***************************************************************************)
CharCode(c) ==
    CASE c = "?" -> 63
      [] c = "D" -> 68
      [] c = "I" -> 73
      [] c = "d" -> 100
      [] c = "i" -> 105
      [] c = "x" -> 120

CMD_ID == <<"i", "d", "?">>
CMD_REPORT == <<"?">>
ID_STRING == "Arduino, Diffusive Bubble Growth logger"

\* Mutant: strncmp over the length of b, so that a longer line matches.
RECURSIVE strcmp_prefix(_, _)
strcmp_prefix(a, b) ==
    LET ca == IF a = <<>> THEN 0 ELSE CharCode(Head(a))
        cb == IF b = <<>> THEN 0 ELSE CharCode(Head(b))
    IN  IF b = <<>> THEN 0
        ELSE IF ca # cb THEN ca - cb
        ELSE strcmp_prefix(Tail(a), Tail(b))

\* strcmp: the difference of the first characters that differ, 0 if none.
RECURSIVE strcmp(_, _)
strcmp(a, b) ==
    LET ca == IF a = <<>> THEN 0 ELSE CharCode(Head(a))
        cb == IF b = <<>> THEN 0 ELSE CharCode(Head(b))
    IN  IF ca # cb THEN ca - cb
        ELSE IF ca = 0 THEN 0
        ELSE strcmp(Tail(a), Tail(b))

(***************************************************************************)
(* Inputs of the model                                                     *)
(***************************************************************************)
MaxIters == 5

\* Command lines the channel delivers: the two recognised ones, a longer one,
\* one in the wrong case and the empty line.
Commands == {CMD_ID, CMD_REPORT, <<"?", "x">>, <<"I", "D", "?">>, <<>>}

\* Milliseconds between two successive reads of millis().
Deltas == {0, 1, 99, 100}

\* Duration of a run of command-free iterations: 2^32 - 50 ms.
IdleSpans == {U32(65535, 65486)}

\* Filtered estimates <<bit value, mA>> the receiver can hold.
Sample(b, m) == [bitval |-> b, mA |-> m]
NoSample == Sample(F32NaN, F32NaN)
Samples ==
    { Sample(F32FromInt(2048), F32FromInt(12)),
      Sample(F32Lit(1591, 2), F32FromInt(4)) }

VARIABLES
    pc,           \* "reset", "setup" (between lines 101 and 109) or "loop"
    statics_done, \* the statics of loop() are initialised (lines 119-120)
    pixel,        \* colour in the NeoPixel buffer (setPixelColor)
    led,          \* colour the NeoPixel displays (show)
    millis,       \* the millisecond timer as last read at line 118
    flash,        \* static bool flash
    flash_tick,   \* static uint32_t flash_tick
    readings,     \* struct Readings readings
    R_click,      \* the receiver's filtered estimates
    avail,        \* sc.available() of the latest iteration
    str_cmd,      \* the command it delivered
    out,          \* what the latest iteration wrote to Serial
    was_flash,    \* flash as the latest iteration found it
    age,          \* ms since the latest command, at most FLASH_LENGTH
    iters,        \* iterations run
    calls,        \* what the latest iteration called, in order
    calc          \* a conversion on its own: calibration, input, result

vars == <<pc, statics_done, pixel, led, millis, flash, flash_tick, readings,
          R_click, avail, str_cmd, out, was_flash, age, iters, calls, calc>>

NoCalc == [calib |-> PRESSURE_CALIB, mA |-> F32NaN, bar |-> F32NaN, done |-> FALSE]

InitDevice ==
    /\ pc = "reset"
    /\ statics_done = FALSE
    /\ pixel = LED_OFF
    /\ led = LED_OFF
    /\ millis = U32Of(0)
    /\ flash = FALSE
    /\ flash_tick = U32Of(0)
    /\ readings = Readings(F32NaN, F32NaN, F32NaN)
    /\ R_click = NoSample
    /\ avail = FALSE
    /\ str_cmd = <<>>
    /\ out = ""
    /\ was_flash = FALSE
    /\ age = FLASH_LENGTH
    /\ iters = 0
    /\ calls = <<>>

Init == InitDevice /\ calc = NoCalc

\* setup(), lines 99-101: the pixel shows blue.
SetupBegin ==
    /\ pc = "reset"
    /\ pc' = "setup"
    /\ pixel' = BLUE
    /\ led' = BLUE
    /\ UNCHANGED <<statics_done, millis, flash, flash_tick, readings, R_click,
                   avail, str_cmd, out, was_flash, age, iters, calls, calc>>

\* Mutant: the dim green is set but never shown.
SetupEnd_noshow ==
    /\ pc = "setup"
    /\ pc' = "loop"
    /\ pixel' = GREEN_DIM
    /\ UNCHANGED <<led, statics_done, millis, flash, flash_tick, readings, R_click,
                   avail, str_cmd, out, was_flash, age, iters, calls, calc>>

\* setup(), lines 103-110: serial port and receiver started, the pixel dim green.
SetupEnd ==
    /\ pc = "setup"
    /\ pc' = "loop"
    /\ pixel' = GREEN_DIM
    /\ led' = GREEN_DIM
    /\ UNCHANGED <<statics_done, millis, flash, flash_tick, readings, R_click,
                   avail, str_cmd, out, was_flash, age, iters, calls, calc>>

\* R_click.poll_EMA(): the estimates stay as they are or move to a valid sample.
poll_EMA(rc) == {rc} \cup Samples

\* Mutant: the getters return the estimates as they were before the poll.
get_EMA_stale(before, polled) == before

\* R_click.get_EMA_bitval() and get_EMA_mA(), lines 141-142: the estimates as
\* the poll_EMA() of line 123 left them, `before` being what they were.
get_EMA(before, polled) == polled

\* Mutant: every field of the record is written with println.
Report_println(bitval, mA, calib) ==
    LET bar == mA2bar(mA, calib)
    IN  [readings |-> Readings(bitval, mA, bar),
         out |-> printFloat(bitval, 0) \o CRLF \o printFloat(mA, 2) \o CRLF
                   \o printFloat(bar, 3) \o CRLF]

\* Mutant: the pressure is converted from the bit value, not from the mA.
Report_bitbar(bitval, mA, calib) ==
    LET bar == mA2bar(bitval, calib)
    IN  [readings |-> Readings(bitval, mA, bar),
         out |-> printFloat(bitval, 0) \o TAB \o printFloat(mA, 2) \o TAB
                   \o printFloat(bar, 3) \o CRLF]

\* Lines 141-149: snapshot, convert, print the record.
Report(bitval, mA, calib) ==
    LET bar == mA2bar(mA, calib)
    IN  [readings |-> Readings(bitval, mA, bar),
         out |-> printFloat(bitval, 0) \o TAB \o printFloat(mA, 2) \o TAB
                   \o printFloat(bar, 3) \o CRLF]

\* Mutant: the readings are refreshed for every command line, not only "?".
Dispatch_anysnap(cmd, rc, rd) ==
    LET snap == Report(rc.bitval, rc.mA, PRESSURE_CALIB)
    IN  IF strcmp(cmd, CMD_ID) = 0
        THEN [readings |-> snap.readings, out |-> ID_STRING \o CRLF]
        ELSE IF strcmp(cmd, CMD_REPORT) = 0
        THEN snap
        ELSE [readings |-> snap.readings, out |-> ""]

\* Lines 135-150: the response to a command.
Dispatch(cmd, rc, rd) ==
    IF strcmp(cmd, CMD_ID) = 0
    THEN [readings |-> rd, out |-> ID_STRING \o CRLF]
    ELSE IF strcmp(cmd, CMD_REPORT) = 0
    THEN Report(rc.bitval, rc.mA, PRESSURE_CALIB)
    ELSE [readings |-> rd, out |-> ""]

\* Mutant: only a recognised command starts the flash.
StartFlash_recognised(rx, cmd, now, fl, tick, col) ==
    IF rx /\ (strcmp(cmd, CMD_ID) = 0 \/ strcmp(cmd, CMD_REPORT) = 0)
    THEN [flash |-> TRUE, tick |-> now, col |-> GREEN_BRIGHT]
    ELSE [flash |-> fl, tick |-> tick, col |-> col]

\* Mutant: a command during a flash does not restart the timer.
StartFlash_noretrigger(rx, cmd, now, fl, tick, col) ==
    IF rx THEN [flash |-> TRUE, tick |-> IF fl THEN tick ELSE now,
                col |-> GREEN_BRIGHT]
    ELSE [flash |-> fl, tick |-> tick, col |-> col]

\* Mutant: the flash is started but flash_tick keeps its old value.
StartFlash_notick(rx, cmd, now, fl, tick, col) ==
    IF rx THEN [flash |-> TRUE, tick |-> tick, col |-> GREEN_BRIGHT]
    ELSE [flash |-> fl, tick |-> tick, col |-> col]

\* Mutant: the flash is started without setting the bright colour.
StartFlash_nocolour(rx, cmd, now, fl, tick, col) ==
    IF rx THEN [flash |-> TRUE, tick |-> now, col |-> col]
    ELSE [flash |-> fl, tick |-> tick, col |-> col]

\* Lines 126-133: any command line starts the flash at `now`, whatever it says.
StartFlash(rx, cmd, now, fl, tick, col) ==
    IF rx THEN [flash |-> TRUE, tick |-> now, col |-> GREEN_BRIGHT]
    ELSE [flash |-> fl, tick |-> tick, col |-> col]

\* Mutant: the flash lasts one ms too long.
FlashExpired_late(now, tick) ==
    ~U32Geq(U32Of(FLASH_LENGTH), U32Sub(now, tick))

\* Mutant: the timestamps compared directly, now >= flash_tick + FLASH_LENGTH.
FlashExpired_absolute(now, tick) ==
    U32Geq(now, U32Add(tick, U32Of(FLASH_LENGTH)))

\* Mutant: the flash ends only in an iteration that runs exactly
\* FLASH_LENGTH ms after the command.
FlashExpired_exact(now, tick) == U32Sub(now, tick) = U32Of(FLASH_LENGTH)

\* Line 153: now - flash_tick >= FLASH_LENGTH, in uint32_t.
FlashExpired(now, tick) == U32Geq(U32Sub(now, tick), U32Of(FLASH_LENGTH))

\* One iteration of loop(): d ms after the previous one, the channel has the
\* command line cmd (rx) or nothing, the receiver moves to rc.
Iteration(d, rx, cmd, rc) ==
    /\ pc = "loop"
    /\ LET now   == U32Add(millis, U32Of(d))
           tick0 == IF statics_done THEN flash_tick ELSE now
           st    == StartFlash(rx, cmd, now, flash, tick0, pixel)
           res   == IF rx THEN Dispatch(cmd, get_EMA(R_click, rc), readings)
                    ELSE [readings |-> readings, out |-> ""]
           exp   == st.flash /\ FlashExpired(now, st.tick)
       IN  /\ millis' = now
           /\ statics_done' = TRUE
           /\ R_click' = rc
           /\ avail' = rx
           /\ str_cmd' = IF rx THEN cmd ELSE <<>>
           /\ readings' = res.readings
           /\ out' = res.out
           /\ flash_tick' = st.tick
           /\ flash' = (st.flash /\ ~exp)
           /\ pixel' = IF exp THEN GREEN_DIM ELSE st.col
           /\ led' = IF exp THEN GREEN_DIM ELSE IF rx THEN st.col ELSE led
           /\ was_flash' = flash
           /\ age' = IF rx THEN 0 ELSE Min(age + d, FLASH_LENGTH)
           /\ calls' = <<"poll_EMA", "available">>
                          \o (IF rx THEN <<"getCommand">> ELSE <<>>)
    /\ UNCHANGED <<pc, calc>>

\* The iterations of loop(), at most MaxIters of them.
Loop(d, rx, cmd, rc) ==
    /\ iters < MaxIters
    /\ Iteration(d, rx, cmd, rc)
    /\ iters' = iters + 1

\* A run of iterations of loop() with no command while flash is false, span ms
\* long in all: each of them only reads the timer and polls the receiver.
IdleRun(span, rc) ==
    /\ pc = "loop"
    /\ statics_done
    /\ ~flash
    /\ iters < MaxIters
    /\ millis' = U32Add(millis, span)
    /\ R_click' = rc
    /\ avail' = FALSE
    /\ str_cmd' = <<>>
    /\ out' = ""
    /\ was_flash' = FALSE
    /\ age' = FLASH_LENGTH
    /\ calls' = <<"poll_EMA", "available">>
    /\ iters' = iters + 1
    /\ UNCHANGED <<pc, statics_done, pixel, led, flash, flash_tick, readings, calc>>

Next ==
    \/ SetupBegin
    \/ SetupEnd
    \/ \E d \in Deltas, rc \in poll_EMA(R_click) :
         \/ Loop(d, FALSE, <<>>, rc)
         \/ \E cmd \in Commands : Loop(d, TRUE, cmd, rc)
    \/ \E span \in IdleSpans, rc \in poll_EMA(R_click) : IdleRun(span, rc)

Spec == Init /\ [][Next]_vars

(***************************************************************************)
(* The loop running for ever.  Command lines arrive while the timer is      *)
(* below LiveWindow; the iterations are followed for as long as flash is    *)
(* true, up to Horizon ms after the latest command line (an iteration with  *)
(* flash false and no command only reads the timer and polls the receiver). *)
(* main() calls loop() for ever and the timer keeps counting, so an         *)
(* iteration that finds the timer advanced always comes: WF on LiveTick.    *)
(***************************************************************************)
LiveWindow == 10
Horizon == 150

LiveLoop(d, rx, cmd, rc) ==
    /\ IF rx THEN U32Lt(millis, U32Of(LiveWindow))
             ELSE flash /\ U32Lt(U32Sub(millis, flash_tick), U32Of(Horizon))
    /\ Iteration(d, rx, cmd, rc)
    /\ UNCHANGED iters

LiveTick ==
    \E d \in Deltas \ {0}, rc \in poll_EMA(R_click) : LiveLoop(d, FALSE, <<>>, rc)

NextLive ==
    \/ SetupBegin
    \/ SetupEnd
    \/ \E d \in Deltas, rc \in poll_EMA(R_click) :
         \/ LiveLoop(d, FALSE, <<>>, rc)
         \/ \E cmd \in Commands : LiveLoop(d, TRUE, cmd, rc)

SpecLive == Init /\ [][NextLive]_vars /\ WF_vars(LiveTick)

(***************************************************************************)
(* mA2bar on its own: a calibration and a reading are drawn, then converted.*)
(***************************************************************************)
\* The next float above and below a positive normal float.
F32Succ(x) == F32Round(x.sgn, x.man + 1, x.exp, FALSE)
F32Pred(x) ==
    IF x.man = 2 ^ (F32_MANT_DIG - 1)
    THEN F32Fin(x.sgn, 2 ^ F32_MANT_DIG - 1, x.exp - 1)
    ELSE F32Fin(x.sgn, x.man - 1, x.exp)

Calibrations ==
    { PRESSURE_CALIB,
      Pressure_Calibration(F32FromInt(4), F32FromInt(16), F32FromInt(10)),
      Pressure_Calibration(F32Lit(1, 10), F32Lit(2, 10), F32FromInt(1)),
      Pressure_Calibration(F32Lit(1, 2), F32FromInt(4), F32FromInt(100)),
      Pressure_Calibration(F32FromInt(20), F32FromInt(-16), F32FromInt(10)) }

CalcReadings(c) ==
    LET top == F32Add(c.zero_mA, c.span_mA)
    IN  { c.zero_mA, top, F32Pred(c.zero_mA), F32Succ(c.zero_mA),
          F32Pred(top), F32Succ(top),
          F32NaN, F32FromInt(0), F32FromInt(-1), F32Lit(5, 100), F32Lit(25, 10),
          F32FromInt(12), F32Lit(2015, 100), F32FromInt(25) }

InitCalc ==
    /\ InitDevice
    /\ \E c \in Calibrations : \E m \in CalcReadings(c) :
          calc = [calib |-> c, mA |-> m, bar |-> F32NaN, done |-> FALSE]

Convert ==
    /\ ~calc.done
    /\ calc' = [calc EXCEPT !.bar = mA2bar(calc.mA, calc.calib), !.done = TRUE]
    /\ UNCHANGED <<pc, statics_done, pixel, led, millis, flash, flash_tick,
                   readings, R_click, avail, str_cmd, out, was_flash, age, iters,
                   calls>>

NextCalc == Convert

SpecCalc == InitCalc /\ [][NextCalc]_vars

(***************************************************************************)
(* Claims                                                                  *)
(***************************************************************************)
Recognised(cmd) == cmd = CMD_ID \/ cmd = CMD_REPORT
Wrapped == U32Lt(millis, flash_tick)

\* C1: an iteration that receives "id?" writes exactly the identity string
\* followed by one newline character, and nothing else.
C1_IdentityThenNewline ==
    (avail /\ str_cmd = CMD_ID) =>
        out = "Arduino, Diffusive Bubble Growth logger\n"

\* C2: an iteration that receives "?" writes one record: bit value with 0
\* decimals, tab, mA with 2 decimals, tab, bar with 3 decimals, newline, the
\* bar being the conversion of the mA that is printed; the receiver at 2048 and
\* 12.0 mA with the calibration {4.0, 16.0, 10.0} gives "2048\t12.00\t5.000\n".
C2_RecordThenNewline ==
    (avail /\ str_cmd = CMD_REPORT) =>
        /\ readings.pres_bitval = R_click.bitval
        /\ readings.pres_mA = R_click.mA
        /\ readings.pres_bar = mA2bar(readings.pres_mA, PRESSURE_CALIB)
        /\ out = printFloat(readings.pres_bitval, 0) \o "\t"
                   \o printFloat(readings.pres_mA, 2) \o "\t"
                   \o printFloat(readings.pres_bar, 3) \o "\n"
        /\ R_click = Sample(F32FromInt(2048), F32FromInt(12)) =>
              Report(R_click.bitval, R_click.mA,
                     Pressure_Calibration(F32FromInt(4), F32FromInt(16),
                                          F32FromInt(10))).out
                = "2048\t12.00\t5.000\n"

\* C3: a command line that is neither exactly "id?" nor exactly "?" produces no
\* serial output and leaves the readings as they were; the iteration only
\* starts the flash.
C3_UnrecognisedIgnored ==
    [][(avail' /\ ~Recognised(str_cmd')) =>
          /\ out' = ""
          /\ readings' = readings
          /\ pc' = pc
          /\ flash' /\ led' = GREEN_BRIGHT]_vars

C3_Witness ==
    /\ avail /\ str_cmd = <<"?", "x">>
    /\ out = ""
    /\ ~isnan(readings.pres_mA)
    /\ readings.pres_mA # R_click.mA

\* C4: at the end of every iteration the indicator is flashing exactly when
\* less than FLASH_LENGTH ms have passed since the latest command line.
C4_FlashingForFlashLength ==
    statics_done => (flash <=> age < FLASH_LENGTH)

C4_Witness ==
    /\ ~flash /\ ~avail /\ led = GREEN_DIM
    /\ ~isnan(readings.pres_bitval)
    /\ U32Sub(millis, flash_tick) = U32Of(FLASH_LENGTH)

\* C5: every command line, recognised or not, leaves the indicator flashing in
\* the bright colour with flash_tick equal to the iteration's timestamp.
C5_AnyCommandFlashes ==
    avail => /\ flash
             /\ flash_tick = millis
             /\ pixel = GREEN_BRIGHT /\ led = GREEN_BRIGHT

C5_Witness == avail /\ str_cmd = <<>> /\ flash /\ flash_tick = millis

\* C6: a command line that arrives while the indicator is still flashing
\* restarts the timer at its own timestamp, and the indicator stays flashing
\* for as long as less than FLASH_LENGTH ms have passed since it.
C6_Retrigger ==
    /\ (avail /\ was_flash) => (flash /\ flash_tick = millis)
    /\ (statics_done /\ age < FLASH_LENGTH) => (flash /\ led = GREEN_BRIGHT)

C6_Witness ==
    /\ avail /\ was_flash /\ flash
    /\ flash_tick = millis
    /\ age = 0
    /\ led = GREEN_BRIGHT

\* C7: when the timer has wrapped around since the command (the timestamp is
\* numerically below flash_tick) the indicator still flashes exactly while
\* less than FLASH_LENGTH ms have really passed, and the unsigned difference
\* now - flash_tick is the number of ms that have really passed.
C7_WrapSafe ==
    (statics_done /\ Wrapped) =>
        /\ flash <=> age < FLASH_LENGTH
        /\ flash => U32Sub(millis, flash_tick) = U32Of(age)

C7_Witness ==
    /\ Wrapped /\ ~flash /\ led = GREEN_DIM
    /\ flash_tick.hi = 65535
    /\ U32Sub(millis, flash_tick) = U32Of(FLASH_LENGTH)

C7_WitnessFlashing == Wrapped /\ flash /\ age = FLASH_LENGTH - 1

\* C8: "?" before the receiver has a valid sample writes a record whose three
\* fields are "nan", stores NaN in all three readings, and the loop can run
\* its next iteration.
C8_NaNRecord ==
    /\ (avail /\ str_cmd = CMD_REPORT /\ R_click = NoSample) =>
          /\ out = "nan\tnan\tnan\r\n"
          /\ isnan(readings.pres_bitval)
          /\ isnan(readings.pres_mA)
          /\ isnan(readings.pres_bar)
    /\ (pc = "loop" /\ iters < MaxIters) =>
          ENABLED (\E d \in Deltas, rc \in poll_EMA(R_click) : Loop(d, FALSE, <<>>, rc))

C8_Witness ==
    /\ avail /\ str_cmd = CMD_REPORT /\ R_click = NoSample
    /\ out = "nan\tnan\tnan\r\n"
    /\ iters < MaxIters

\* C9 as stated: for every calibration with a span other than 0 the
\* conversion returns 0 at mA = zero and full_scale at mA = zero + span, and a
\* reading outside [zero, zero + span] maps outside [0, full_scale].
C9_ExactEndpoints ==
    LET z   == calc.calib.zero_mA
        top == F32Add(calc.calib.zero_mA, calc.calib.span_mA)
        f   == calc.calib.full_range_bar
        up  == ~F32Lt(calc.calib.span_mA, F32Zero(0))
        lo  == IF up THEN F32Lt(calc.mA, z) ELSE F32Lt(z, calc.mA)
        hi  == IF up THEN F32Lt(top, calc.mA) ELSE F32Lt(calc.mA, top)
    IN  calc.done =>
          /\ calc.mA = z => F32IsZero(calc.bar)
          /\ calc.mA = top => calc.bar = f
          /\ lo => F32Lt(calc.bar, F32Zero(0))
          /\ hi => F32Lt(f, calc.bar)

\* C9 as amended: the conversion is (mA - zero) / span * full_scale in float
\* arithmetic, unclamped.  It returns 0 at mA = zero for every calibration;
\* it returns full_scale at mA = zero + span when (zero + span) - zero is
\* exactly span, as it is for the calibration of the build; and under the
\* calibration of the build the floats next below zero and next above
\* zero + span, like readings further out, map below 0 and above full_scale.
C9_FloatEndpoints ==
    LET z     == calc.calib.zero_mA
        top   == F32Add(calc.calib.zero_mA, calc.calib.span_mA)
        f     == calc.calib.full_range_bar
        exact == F32Sub(top, z) = calc.calib.span_mA
        build == calc.calib = PRESSURE_CALIB
    IN  calc.done =>
          /\ isnan(calc.mA) <=> isnan(calc.bar)
          /\ calc.mA = z => F32IsZero(calc.bar)
          /\ (calc.mA = top /\ exact) => calc.bar = f
          /\ build => exact
          /\ (build /\ F32Lt(calc.mA, z)) => F32Lt(calc.bar, F32Zero(0))
          /\ (build /\ F32Lt(top, calc.mA)) => F32Lt(f, calc.bar)

C9_Witness ==
    /\ calc.done
    /\ calc.calib = PRESSURE_CALIB
    /\ calc.mA = F32Succ(F32Add(calc.calib.zero_mA, calc.calib.span_mA))
    /\ F32Lt(calc.calib.full_range_bar, calc.bar)

C9_WitnessInexact ==
    /\ calc.done
    /\ calc.mA = F32Add(calc.calib.zero_mA, calc.calib.span_mA)
    /\ calc.bar # calc.calib.full_range_bar

\* C10: the indicator shows the setup colour exactly during setup, only the
\* idle or the flash colour once setup is over, and the idle colour with
\* flash false when the first iteration begins.
C10_ThreeColours ==
    /\ (pc = "setup") <=> (led = BLUE)
    /\ (pc = "loop") => led \in {GREEN_DIM, GREEN_BRIGHT}
    /\ (pc = "loop" /\ ~statics_done) => (led = GREEN_DIM /\ ~flash)

C10_Witness == pc = "loop" /\ ~statics_done /\ led = GREEN_DIM /\ ~flash

\* C11: every iteration polls the receiver first, whether or not a command
\* line is pending, and only then polls the command channel; the values a "?"
\* stores are the receiver's estimates after that iteration's poll.
C11_PollBeforeDispatch ==
    /\ statics_done =>
          /\ Len(calls) >= 2
          /\ calls[1] = "poll_EMA" /\ calls[2] = "available"
          /\ \A i \in 3..Len(calls) : calls[i] # "poll_EMA"
          /\ avail <=> calls = <<"poll_EMA", "available", "getCommand">>
    /\ (avail /\ str_cmd = CMD_REPORT) =>
          /\ readings.pres_bitval = R_click.bitval
          /\ readings.pres_mA = R_click.mA

\* The first iteration carries "?": the receiver had no sample before its
\* poll, and the record holds the sample that poll brought.
C11_Witness ==
    /\ iters = 1
    /\ avail /\ str_cmd = CMD_REPORT
    /\ calls = <<"poll_EMA", "available", "getCommand">>
    /\ readings.pres_mA = F32FromInt(12)
    /\ R_click.mA = F32FromInt(12)

\* A command-free iteration polled the receiver all the same.
C11_WitnessNoCommand ==
    /\ iters = 1 /\ ~avail
    /\ calls = <<"poll_EMA", "available">>
    /\ R_click \in Samples

\* C12: the three readings change only in an iteration that dispatches "?";
\* an iteration with no command, with "id?" or with an unrecognised line, and
\* the polls of the receiver, leave all three as they were.
C12_ReadingsOnlyOnReport ==
    [][~(avail' /\ str_cmd' = CMD_REPORT) =>
          /\ readings'.pres_bitval = readings.pres_bitval
          /\ readings'.pres_mA = readings.pres_mA
          /\ readings'.pres_bar = readings.pres_bar]_vars

\* "id?" arrives after the receiver has moved on from the stored snapshot.
C12_Witness ==
    /\ avail /\ str_cmd = CMD_ID
    /\ ~isnan(readings.pres_mA)
    /\ R_click \in Samples
    /\ readings.pres_mA # R_click.mA

\* A command-free iteration, likewise.
C12_WitnessNoCommand ==
    /\ ~avail /\ ~flash
    /\ ~isnan(readings.pres_mA)
    /\ R_click \in Samples
    /\ readings.pres_mA # R_click.mA

\* C13: whenever the indicator is flashing, if no further command line arrives
\* and the loop keeps running while the timer advances, the indicator is
\* eventually idle again, showing the dim colour; it never flashes for ever.
C13_FlashEnds == flash ~> (~flash /\ led = GREEN_DIM)

\* The flash has ended in an iteration that skipped over the 100th ms.
C13_Witness ==
    /\ ~flash /\ ~avail /\ was_flash
    /\ led = GREEN_DIM
    /\ U32Sub(millis, flash_tick) = U32Of(2 * FLASH_LENGTH - 2)

\* C14: an iteration reads the timer once and uses that value both as the
\* start of the flash and in the expiry comparison: an iteration that
\* receives a command line ends flashing with 0 ms elapsed, never idle, and a
\* command-free iteration during a flash keeps it exactly while its own
\* timestamp is less than FLASH_LENGTH ms past flash_tick.
C14_OneTimestamp ==
    [][/\ avail' =>
            /\ flash' /\ led' = GREEN_BRIGHT
            /\ flash_tick' = millis'
            /\ U32Sub(millis', flash_tick') = U32Of(0)
            /\ ~FlashExpired(millis', flash_tick')
       /\ (~avail' /\ flash) =>
            /\ flash_tick' = flash_tick
            /\ flash' <=> U32Lt(U32Sub(millis', flash_tick), U32Of(FLASH_LENGTH))]_vars

\* "id?" arrives when an earlier flash, started by a "?", has long ended.
C14_Witness ==
    /\ avail /\ str_cmd = CMD_ID /\ ~was_flash
    /\ ~isnan(readings.pres_mA)
    /\ flash /\ led = GREEN_BRIGHT
    /\ U32Sub(millis, flash_tick) = U32Of(0)

\* The number of line feeds in a string.
RECURSIVE LineFeeds(_)
LineFeeds(s) ==
    IF s = "" THEN 0
    ELSE (IF Head(s) = "\n" THEN 1 ELSE 0) + LineFeeds(Tail(s))

\* C15: an iteration polls the channel once and takes at most one command
\* line from it; it writes at most one line.  A recognised command is answered
\* in the iteration that took it, with one line that ends the output; an
\* iteration without a command writes nothing.
C15_OneCommandOneLine ==
    /\ Cardinality({i \in DOMAIN calls : calls[i] = "available"}) <= 1
    /\ Cardinality({i \in DOMAIN calls : calls[i] = "getCommand"}) <= 1
    /\ avail <=> (\E i \in DOMAIN calls : calls[i] = "getCommand")
    /\ LineFeeds(out) <= 1
    /\ ~avail => out = ""
    /\ (avail /\ Recognised(str_cmd)) =>
          /\ LineFeeds(out) = 1
          /\ Len(out) >= 2
          /\ SubSeq(out, Len(out) - 1, Len(out)) = CRLF

\* A "?" answered with one line of three fields.
C15_Witness ==
    /\ avail /\ str_cmd = CMD_REPORT
    /\ out = "2048\t12.00\t4.997\r\n"
    /\ LineFeeds(out) = 1

\* A command-free iteration right after an answered one.
C15_WitnessSilent ==
    /\ ~avail /\ was_flash /\ flash
    /\ out = ""
    /\ ~isnan(readings.pres_mA)

\* C16: from the end of setup on, and at the end of every iteration, the
\* colour shown agrees with the flag: bright exactly when flash is true, dim
\* exactly when it is false, and the pixel buffer holds the colour shown.
C16_ColourAgreesWithFlag ==
    pc = "loop" =>
        /\ flash <=> led = GREEN_BRIGHT
        /\ ~flash <=> led = GREEN_DIM
        /\ pixel = led

\* The iteration that ends a flash leaves the dim colour.
C16_Witness ==
    /\ statics_done /\ was_flash /\ ~flash
    /\ led = GREEN_DIM /\ pixel = GREEN_DIM

\* A command-free iteration during a flash leaves the bright colour.
C16_WitnessFlashing ==
    /\ ~avail /\ was_flash /\ flash
    /\ led = GREEN_BRIGHT
    /\ age = FLASH_LENGTH - 1

\* C17: in every reachable state the readings are a consistent snapshot:
\* either all three are NaN, or the bit value and the mA are one sample of the
\* receiver, taken together, and the pressure is the conversion of the stored
\* mA; the stored pressure is never that of another mA.
C17_ConsistentSnapshot ==
    \/ /\ isnan(readings.pres_bitval)
       /\ isnan(readings.pres_mA)
       /\ isnan(readings.pres_bar)
    \/ /\ Sample(readings.pres_bitval, readings.pres_mA) \in Samples
       /\ readings.pres_bar = mA2bar(readings.pres_mA, PRESSURE_CALIB)
       /\ ~isnan(readings.pres_bar)

\* A second "?" has replaced an earlier snapshot by that of another sample.
C17_Witness ==
    /\ avail /\ str_cmd = CMD_REPORT /\ was_flash
    /\ readings.pres_mA = F32FromInt(4)
    /\ readings.pres_bitval = F32Lit(1591, 2)
    /\ F32Lt(readings.pres_bar, F32Zero(0))

\* A snapshot kept while the receiver has moved to another sample.
C17_WitnessKept ==
    /\ ~avail /\ ~was_flash
    /\ readings.pres_mA = F32FromInt(12)
    /\ R_click.mA = F32FromInt(4)
    /\ readings.pres_bar = mA2bar(F32FromInt(12), PRESSURE_CALIB)
=============================================================================
